---- MODULE Spec2Model ----
(***************************************************************************)
(* Model of the persistence core of rdp (src/rdp/crud/crud.py): the three  *)
(* tables value_type, device_type and value, and the operations of class   *)
(* Crud as they run against the shared store.  Every operation opens its   *)
(* own Session; the steps of an operation that talk to the store (the      *)
(* SELECT, the flush and COMMIT) are the atomic steps of the model, so     *)
(* callers interleave between the read and the commit of an upsert and     *)
(* between the two commits of add_value.                                   *)
(***************************************************************************)
EXTENDS Integers, Sequences, FiniteSets, TLC

VARIABLES value_type, device_type, value, sess, last, nops, nreads

vars == <<value_type, device_type, value, sess, last, nops, nreads>>

(***************************************************************************)
(* Bounds of the model.                                                    *)
(***************************************************************************)
MaxOps == 2
MaxReads == 1
MaxTime == 2

Callers == {"c1", "c2"}
TypeIds == {7, 42}
DeviceIds == {7}
Times == 0..MaxTime
Floats == {4, 97}

(***************************************************************************)
(* Python values.  An optional argument or a nullable column is None or    *)
(* Some(s); Truthy is Python's truth test on it (None and "" are falsy).   *)
(***************************************************************************)
None == <<>>
Some(x) == <<x>>
Truthy(o) == o /= None /\ o[1] /= ""

Strs == {"", "X", "Y"}
OptStr == {None} \cup {Some(s) : s \in Strs}
OptId == {None} \cup {Some(k) : k \in TypeIds}
OptBound == {None} \cup {Some(t) : t \in 1..MaxTime}

(***************************************************************************)
(* "%d" % n                                                                *)
(***************************************************************************)
Digit(d) ==
  CASE d = 0 -> "0" [] d = 1 -> "1" [] d = 2 -> "2" [] d = 3 -> "3"
    [] d = 4 -> "4" [] d = 5 -> "5" [] d = 6 -> "6" [] d = 7 -> "7"
    [] d = 8 -> "8" [] d = 9 -> "9"

RECURSIVE NatToStr(_)
NatToStr(n) == IF n < 10 THEN Digit(n) ELSE NatToStr(n \div 10) \o Digit(n % 10)

IntToStr(n) == IF n < 0 THEN "-" \o NatToStr(0 - n) ELSE NatToStr(n)

(***************************************************************************)
(* The store.  A table is the sequence of its rows as a SELECT without     *)
(* ORDER BY returns them: SQLite scans a table by rowid, and the integer   *)
(* primary key is the rowid, so the rows are in ascending id.              *)
(* value_type(id PK, type_name, type_unit),                                *)
(* device_type(id PK, name, location),                                     *)
(* value(id PK autogen, time, value, value_type_id).                       *)
(***************************************************************************)
\* INSERT: the row takes its place in the id order of the table
RECURSIVE InsertById(_, _)
InsertById(tbl, row) ==
  IF tbl = <<>> THEN <<row>>
  ELSE IF row.id < Head(tbl).id THEN <<row>> \o tbl
  ELSE <<Head(tbl)>> \o InsertById(Tail(tbl), row)

\* the constraints on value: its generated id is the primary key, and no
\* uniqueness is declared over time, value or value_type_id
ValueIntegrityViolation(tbl, row) == \E i \in DOMAIN tbl : tbl[i].id = row.id

\* mutant: the tables declare no primary key
PrimaryKeyViolation_none(tbl, id) == FALSE

PrimaryKeyViolation(tbl, id) == \E i \in DOMAIN tbl : tbl[i].id = id

\* session.scalars(select(T).where(T.id == id)): the matching rows, in order
SelectById(tbl, id) == SelectSeq(tbl, LAMBDA r : r.id = id)

\* the state of an ORM instance inside a Session: transient (new) or loaded
\* from a row, with the attribute values it was loaded with and its current
\* ones
NoRow == [id |-> 0]
NoInstance == [new |-> FALSE, loaded |-> NoRow, obj |-> NoRow]

(***************************************************************************)
(* Crud.add_or_update_value_type                                           *)
(***************************************************************************)
\* mutant: the elif branch that synthesizes the default is missing
ResolveField_no_default(arg, stored, default) ==
  IF Truthy(arg) THEN arg ELSE stored

\* mutant: the argument is tested with "is not None" instead of its truth value
ResolveField_is_not_none(arg, stored, default) ==
  IF arg /= None THEN arg
  ELSE IF ~Truthy(stored) THEN Some(default)
  ELSE stored

\* mutant: an absent argument resets the field to its default
ResolveField_reset(arg, stored, default) ==
  IF Truthy(arg) THEN arg ELSE Some(default)

\* if arg: attr = arg  elif not attr: attr = default
ResolveField(arg, stored, default) ==
  IF Truthy(arg) THEN arg
  ELSE IF ~Truthy(stored) THEN Some(default)
  ELSE stored

\* the for loop over the result keeps the last row; no row: ValueType(id=id)
ValueTypeInstance(found, value_type_id) ==
  IF found = <<>>
  THEN [new |-> TRUE,
        loaded |-> [id |-> value_type_id, type_name |-> None, type_unit |-> None],
        obj |-> [id |-> value_type_id, type_name |-> None, type_unit |-> None]]
  ELSE [new |-> FALSE, loaded |-> found[Len(found)], obj |-> found[Len(found)]]

\* mutant: the unit's default is built from the name's format string
value_type_select_type_for_unit(tbl, value_type_id, value_type_name, value_type_unit) ==
  LET db_type == ValueTypeInstance(SelectById(tbl, value_type_id), value_type_id)
  IN [db_type EXCEPT
        !.obj = [id |-> db_type.obj.id,
                 type_name |-> ResolveField(value_type_name, db_type.obj.type_name,
                                            "TYPE_" \o IntToStr(value_type_id)),
                 type_unit |-> ResolveField(value_type_unit, db_type.obj.type_unit,
                                            "TYPE_" \o IntToStr(value_type_id))]]

\* lines 36-49: the SELECT and the assignments to the instance
value_type_select(tbl, value_type_id, value_type_name, value_type_unit) ==
  LET db_type == ValueTypeInstance(SelectById(tbl, value_type_id), value_type_id)
  IN [db_type EXCEPT
        !.obj = [id |-> db_type.obj.id,
                 type_name |-> ResolveField(value_type_name, db_type.obj.type_name,
                                            "TYPE_" \o IntToStr(value_type_id)),
                 type_unit |-> ResolveField(value_type_unit, db_type.obj.type_unit,
                                            "UNIT_" \o IntToStr(value_type_id))]]

\* mutant: the new instance is never added to the session
value_type_flush_no_add(tbl, inst) ==
  [outcome |-> "ok", table |-> tbl]

\* mutant: the instance is merged into the store, replacing a row of its id
value_type_flush_merge(tbl, inst) ==
  IF PrimaryKeyViolation(tbl, inst.obj.id)
  THEN [outcome |-> "ok",
        table |-> [i \in DOMAIN tbl |->
                     IF tbl[i].id = inst.obj.id THEN inst.obj ELSE tbl[i]]]
  ELSE [outcome |-> "ok", table |-> InsertById(tbl, inst.obj)]

\* lines 50-51: the flush of session.commit().  A new instance is INSERTed
\* and the primary key decides; a loaded one is UPDATEd in the columns whose
\* value differs from the loaded one.
value_type_flush(tbl, inst) ==
  IF inst.new
  THEN IF PrimaryKeyViolation(tbl, inst.obj.id)
       THEN [outcome |-> "IntegrityError", table |-> tbl]
       ELSE [outcome |-> "ok", table |-> InsertById(tbl, inst.obj)]
  ELSE [outcome |-> "ok",
        table |-> [i \in DOMAIN tbl |->
          IF tbl[i].id = inst.obj.id
          THEN [id |-> tbl[i].id,
                type_name |-> IF inst.obj.type_name /= inst.loaded.type_name
                              THEN inst.obj.type_name ELSE tbl[i].type_name,
                type_unit |-> IF inst.obj.type_unit /= inst.loaded.type_unit
                              THEN inst.obj.type_unit ELSE tbl[i].type_unit]
          ELSE tbl[i]]]

(***************************************************************************)
(* Crud.add_or_update_device                                               *)
(***************************************************************************)
\* mutant: the row found by the SELECT is never taken over
DeviceTypeInstance_always_new(found, device_type_id) ==
  [new |-> TRUE,
   loaded |-> [id |-> device_type_id, name |-> None, location |-> None],
   obj |-> [id |-> device_type_id, name |-> None, location |-> None]]

\* lines 161-167: the for loop keeps the last row; no row: DeviceType(id=id)
DeviceTypeInstance(found, device_type_id) ==
  IF found = <<>>
  THEN [new |-> TRUE,
        loaded |-> [id |-> device_type_id, name |-> None, location |-> None],
        obj |-> [id |-> device_type_id, name |-> None, location |-> None]]
  ELSE [new |-> FALSE, loaded |-> found[Len(found)], obj |-> found[Len(found)]]

\* lines 160-177
device_select(tbl, device_type_id, device_name, device_location) ==
  LET db_device_type == DeviceTypeInstance(SelectById(tbl, device_type_id), device_type_id)
  IN [db_device_type EXCEPT
        !.obj = [id |-> db_device_type.obj.id,
                 name |-> ResolveField(device_name, db_device_type.obj.name,
                                       "DEVICE_TYPE_" \o IntToStr(device_type_id)),
                 location |-> ResolveField(device_location, db_device_type.obj.location,
                                           "DEVICE_LOCATION_" \o IntToStr(device_type_id))]]

\* lines 179-184
device_flush(tbl, inst) ==
  IF inst.new
  THEN IF PrimaryKeyViolation(tbl, inst.obj.id)
       THEN [outcome |-> "IntegrityError", table |-> tbl]
       ELSE [outcome |-> "ok", table |-> InsertById(tbl, inst.obj)]
  ELSE [outcome |-> "ok",
        table |-> [i \in DOMAIN tbl |->
          IF tbl[i].id = inst.obj.id
          THEN [id |-> tbl[i].id,
                name |-> IF inst.obj.name /= inst.loaded.name
                         THEN inst.obj.name ELSE tbl[i].name,
                location |-> IF inst.obj.location /= inst.loaded.location
                             THEN inst.obj.location ELSE tbl[i].location]
          ELSE tbl[i]]]

(***************************************************************************)
(* Crud.add_value, lines 65-69: the Value row the second session inserts.  *)
(* The row id is generated by the store.                                   *)
(***************************************************************************)
\* mutant: a Value equal in time, value and type to a stored one is dropped
value_insert_dedup(tbl, value_time, db_type, value_value) ==
  IF \E i \in DOMAIN tbl : /\ tbl[i].time = value_time
                            /\ tbl[i].value = value_value
                            /\ tbl[i].value_type_id = db_type.id
  THEN [outcome |-> "ok", table |-> tbl]
  ELSE [outcome |-> "ok",
        table |-> Append(tbl, [id |-> Len(tbl) + 1, time |-> value_time,
                               value |-> value_value, value_type_id |-> db_type.id])]

\* mutant: a Value of the same time and type replaces the stored one
value_insert_replace(tbl, value_time, db_type, value_value) ==
  IF \E i \in DOMAIN tbl : tbl[i].time = value_time /\ tbl[i].value_type_id = db_type.id
  THEN [outcome |-> "ok",
        table |-> [i \in DOMAIN tbl |->
                     IF tbl[i].time = value_time /\ tbl[i].value_type_id = db_type.id
                     THEN [tbl[i] EXCEPT !.value = value_value] ELSE tbl[i]]]
  ELSE [outcome |-> "ok",
        table |-> Append(tbl, [id |-> Len(tbl) + 1, time |-> value_time,
                               value |-> value_value, value_type_id |-> db_type.id])]

\* lines 65-72: the INSERT of the Value row; a constraint the row breaks
\* makes session.commit() raise IntegrityError, and no row is stored
value_insert(tbl, value_time, db_type, value_value) ==
  LET db_value == [id |-> Len(tbl) + 1, time |-> value_time, value |-> value_value,
                   value_type_id |-> db_type.id]
  IN IF ValueIntegrityViolation(tbl, db_value)
     THEN [outcome |-> "IntegrityError", table |-> tbl]
     ELSE [outcome |-> "ok", table |-> Append(tbl, db_value)]

(***************************************************************************)
(* Crud.get_values: the query, then ORDER BY value.time                    *)
(***************************************************************************)
\* select(Value).join(Value.value_type).where(ValueType.id == k): one result
\* row per pair of a value row and a value_type row it references
JoinValueType(vals, types, value_type_id) ==
  LET RECURSIVE J(_)
      J(i) == IF i > Len(vals) THEN <<>>
              ELSE [n \in 1..Len(SelectSeq(types, LAMBDA ty :
                                   ty.id = vals[i].value_type_id /\ ty.id = value_type_id))
                      |-> vals[i]] \o J(i + 1)
  IN J(1)

\* ORDER BY time, rows of equal time in table order
RECURSIVE InsertByTime(_, _)
InsertByTime(row, sorted) ==
  IF sorted = <<>> THEN <<row>>
  ELSE IF row.time < Head(sorted).time THEN <<row>> \o sorted
  ELSE <<Head(sorted)>> \o InsertByTime(row, Tail(sorted))

\* mutant: the statement has no order_by
OrderByTime_unordered(rows) == rows

RECURSIVE OrderByTime(_)
OrderByTime(rows) ==
  IF rows = <<>> THEN <<>>
  ELSE InsertByTime(rows[Len(rows)], OrderByTime(SubSeq(rows, 1, Len(rows) - 1)))

\* mutant: the lower bound is exclusive
query_values_exclusive_start(vals, types, value_type_id, start, end) ==
  LET joined == IF value_type_id /= None
                THEN JoinValueType(vals, types, value_type_id[1]) ELSE vals
      from == IF start /= None
              THEN SelectSeq(joined, LAMBDA r : r.time > start[1]) ELSE joined
      upto == IF end /= None
              THEN SelectSeq(from, LAMBDA r : r.time <= end[1]) ELSE from
  IN OrderByTime(upto)

query_values(vals, types, value_type_id, start, end) ==
  LET joined == IF value_type_id /= None
                THEN JoinValueType(vals, types, value_type_id[1]) ELSE vals
      from == IF start /= None
              THEN SelectSeq(joined, LAMBDA r : r.time >= start[1]) ELSE joined
      upto == IF end /= None
              THEN SelectSeq(from, LAMBDA r : r.time <= end[1]) ELSE from
  IN OrderByTime(upto)

(***************************************************************************)
(* Lookups                                                                 *)
(***************************************************************************)
\* mutant: Result.first(), which returns None when there is no row
one_first(found) ==
  IF found = <<>> THEN [outcome |-> "ok", result |-> <<>>]
  ELSE [outcome |-> "ok", result |-> <<found[1]>>]

\* Result.one(): exactly one row or an exception
one(found) ==
  IF found = <<>> THEN [outcome |-> "NoResultFound", result |-> <<>>]
  ELSE IF Len(found) > 1 THEN [outcome |-> "MultipleResultsFound", result |-> <<>>]
  ELSE [outcome |-> "ok", result |-> found]

\* Result.one_or_none(), then the explicit raise of get_device_type
one_or_raise(found) ==
  IF found = <<>> THEN [outcome |-> "NoResultFound", result |-> <<>>]
  ELSE IF Len(found) > 1 THEN [outcome |-> "MultipleResultsFound", result |-> <<>>]
  ELSE [outcome |-> "ok", result |-> found]

(***************************************************************************)
(* The instance an upsert returns (lines 51-52, 181-186).  session.commit() *)
(* expires every attribute of the instances of the Session (Session(engine) *)
(* keeps expire_on_commit), and leaving the with block closes the Session   *)
(* and detaches them: the caller holds the identity and no attribute value. *)
(***************************************************************************)
returned_instance(obj) ==
  [identity_key |-> obj.id, expired |-> TRUE, detached |-> TRUE, attrs |-> <<>>]

\* reading the attributes of an instance: an expired one is refreshed by its
\* Session, and a detached one has none
read_attributes(o) ==
  IF o.expired
  THEN IF o.detached
       THEN [outcome |-> "DetachedInstanceError", attrs |-> <<>>]
       ELSE [outcome |-> "refresh", attrs |-> <<>>]
  ELSE [outcome |-> "ok", attrs |-> o.attrs]

(***************************************************************************)
(* State.  sess[c] is the call caller c is in: the operation, its          *)
(* arguments, the next step (pc) and the instance held by its Session.     *)
(* last is what the most recent step gave its caller: the step, its        *)
(* arguments and the value returned or the exception raised.  nops counts  *)
(* the writing calls started, nreads the reads made.                       *)
(***************************************************************************)
Idle == [pc |-> "idle", op |-> "", args |-> <<>>, inst |-> NoInstance]

Report(c, op, args, outcome, result) ==
  [caller |-> c, op |-> op, args |-> args, outcome |-> outcome, result |-> result]

\* a read is one SELECT in a Session of its own and holds no state between
\* steps: its caller is any thread of the process
Read(op, args, outcome, result) ==
  [caller |-> "", op |-> op, args |-> args, outcome |-> outcome, result |-> result]

\* Crud.__init__: create_all leaves the three tables empty
Init ==
  /\ value_type = <<>>
  /\ device_type = <<>>
  /\ value = <<>>
  /\ sess = [c \in Callers |-> Idle]
  /\ last = Report("", "init", <<>>, "ok", <<>>)
  /\ nops = 0
  /\ nreads = 0

\* ---- add_or_update_value_type ----
add_or_update_value_type_select(c, id, name, unit) ==
  /\ sess[c].pc = "idle"
  /\ nops < MaxOps
  /\ nops' = nops + 1
  /\ sess' = [sess EXCEPT ![c] =
       [pc |-> "commit", op |-> "add_or_update_value_type", args |-> <<id, name, unit>>,
        inst |-> value_type_select(value_type, id, name, unit)]]
  /\ last' = Report(c, "add_or_update_value_type", <<>>, "select", <<>>)
  /\ UNCHANGED <<value_type, device_type, value, nreads>>

add_or_update_value_type_commit(c) ==
  /\ sess[c].op = "add_or_update_value_type"
  /\ sess[c].pc = "commit"
  /\ LET done == value_type_flush(value_type, sess[c].inst)
     IN /\ value_type' = done.table
        /\ last' = Report(c, "add_or_update_value_type", sess[c].args, done.outcome,
                          IF done.outcome = "ok" THEN <<returned_instance(sess[c].inst.obj)>>
                          ELSE <<>>)
  /\ sess' = [sess EXCEPT ![c] = Idle]
  /\ UNCHANGED <<device_type, value, nops, nreads>>

\* ---- add_or_update_device ----
add_or_update_device_select(c, id, name, location) ==
  /\ sess[c].pc = "idle"
  /\ nops < MaxOps
  /\ nops' = nops + 1
  /\ sess' = [sess EXCEPT ![c] =
       [pc |-> "commit", op |-> "add_or_update_device", args |-> <<id, name, location>>,
        inst |-> device_select(device_type, id, name, location)]]
  /\ last' = Report(c, "add_or_update_device", <<>>, "select", <<>>)
  /\ UNCHANGED <<value_type, device_type, value, nreads>>

add_or_update_device_commit(c) ==
  /\ sess[c].op = "add_or_update_device"
  /\ sess[c].pc = "commit"
  /\ LET done == device_flush(device_type, sess[c].inst)
     IN /\ device_type' = done.table
        /\ last' = Report(c, "add_or_update_device", sess[c].args, done.outcome,
                          IF done.outcome = "ok" THEN <<returned_instance(sess[c].inst.obj)>>
                          ELSE <<>>)
  /\ sess' = [sess EXCEPT ![c] = Idle]
  /\ UNCHANGED <<value_type, value, nops, nreads>>

\* ---- add_value ----
\* mutant: the exception of the nested call is swallowed and add_value goes on
add_value_after_type_commit_swallow(call, outcome) ==
  [call EXCEPT !.pc = "value_commit"]

\* line 64: the nested call returns db_type, or its exception leaves add_value
add_value_after_type_commit(call, outcome) ==
  IF outcome = "ok" THEN [call EXCEPT !.pc = "value_commit"] ELSE Idle

\* line 64, the call add_or_update_value_type(value_type): its SELECT
add_value_select(c, value_time, type_id, value_value) ==
  /\ sess[c].pc = "idle"
  /\ nops < MaxOps
  /\ nops' = nops + 1
  /\ sess' = [sess EXCEPT ![c] =
       [pc |-> "type_commit", op |-> "add_value",
        args |-> <<value_time, type_id, value_value>>,
        inst |-> value_type_select(value_type, type_id, None, None)]]
  /\ last' = Report(c, "add_value", <<>>, "select", <<>>)
  /\ UNCHANGED <<value_type, device_type, value, nreads>>

\* line 64, the commit of that call's own session; an IntegrityError leaves
\* add_value
add_value_type_commit(c) ==
  /\ sess[c].op = "add_value"
  /\ sess[c].pc = "type_commit"
  /\ LET done == value_type_flush(value_type, sess[c].inst)
     IN /\ value_type' = done.table
        /\ last' = Report(c, "add_value", sess[c].args,
                          IF done.outcome = "ok" THEN "type_committed" ELSE done.outcome,
                          <<>>)
        /\ sess' = [sess EXCEPT ![c] = add_value_after_type_commit(sess[c], done.outcome)]
  /\ UNCHANGED <<device_type, value, nops, nreads>>

\* lines 65-72: the Value row, committed by add_value's session; an
\* IntegrityError of the commit is logged and raised again
add_value_commit(c) ==
  /\ sess[c].op = "add_value"
  /\ sess[c].pc = "value_commit"
  /\ LET done == value_insert(value, sess[c].args[1], sess[c].inst.obj,
                              sess[c].args[3])
     IN /\ value' = done.table
        /\ last' = Report(c, "add_value", sess[c].args, done.outcome, <<>>)
  /\ sess' = [sess EXCEPT ![c] = Idle]
  /\ UNCHANGED <<value_type, device_type, nops, nreads>>

\* ---- the reads: one SELECT each ----
get_value_types ==
  /\ nreads < MaxReads
  /\ nreads' = nreads + 1
  /\ last' = Read("get_value_types", <<>>, "ok", value_type)
  /\ UNCHANGED <<value_type, device_type, value, sess, nops>>

\* mutant: a lookup that finds no row creates the defaulted record
get_value_type_or_create(id) ==
  /\ nreads < MaxReads
  /\ nreads' = nreads + 1
  /\ LET got == one(SelectById(value_type, id))
     IN /\ last' = Read("get_value_type", <<id>>, got.outcome, got.result)
        /\ value_type' =
             IF got.outcome = "NoResultFound"
             THEN value_type_flush(value_type,
                                   value_type_select(value_type, id, None, None)).table
             ELSE value_type
  /\ UNCHANGED <<device_type, value, sess, nops>>

get_value_type(id) ==
  /\ nreads < MaxReads
  /\ nreads' = nreads + 1
  /\ LET got == one(SelectById(value_type, id))
     IN last' = Read("get_value_type", <<id>>, got.outcome, got.result)
  /\ UNCHANGED <<value_type, device_type, value, sess, nops>>

get_device_type(id) ==
  /\ nreads < MaxReads
  /\ nreads' = nreads + 1
  /\ LET got == one_or_raise(SelectById(device_type, id))
     IN last' = Read("get_device_type", <<id>>, got.outcome, got.result)
  /\ UNCHANGED <<value_type, device_type, value, sess, nops>>

get_values(value_type_id, start, end) ==
  /\ nreads < MaxReads
  /\ nreads' = nreads + 1
  /\ last' = Read("get_values", <<value_type_id, start, end>>, "ok",
                  query_values(value, value_type, value_type_id, start, end))
  /\ UNCHANGED <<value_type, device_type, value, sess, nops>>

Next ==
  \/ \E c \in Callers, id \in TypeIds, name \in OptStr, unit \in OptStr :
       add_or_update_value_type_select(c, id, name, unit)
  \/ \E c \in Callers : add_or_update_value_type_commit(c)
  \/ \E c \in Callers, id \in DeviceIds, name \in OptStr, location \in OptStr :
       add_or_update_device_select(c, id, name, location)
  \/ \E c \in Callers : add_or_update_device_commit(c)
  \/ \E c \in Callers, t \in Times, k \in TypeIds, v \in Floats :
       add_value_select(c, t, k, v)
  \/ \E c \in Callers : add_value_type_commit(c)
  \/ \E c \in Callers : add_value_commit(c)
  \/ get_value_types
  \/ \E id \in TypeIds : get_value_type(id)
  \/ \E id \in DeviceIds : get_device_type(id)
  \/ \E k \in OptId, s \in OptBound, e \in OptBound : get_values(k, s, e)

Spec == Init /\ [][Next]_vars

(***************************************************************************)
(* Vocabulary of the properties.                                           *)
(***************************************************************************)
\* the synthesized default strings, written out
ExpectedTypeName(k) == CASE k = 7 -> "TYPE_7" [] k = 42 -> "TYPE_42"
ExpectedTypeUnit(k) == CASE k = 7 -> "UNIT_7" [] k = 42 -> "UNIT_42"
ExpectedDeviceName(k) == CASE k = 7 -> "DEVICE_TYPE_7" [] k = 42 -> "DEVICE_TYPE_42"
ExpectedDeviceLocation(k) ==
  CASE k = 7 -> "DEVICE_LOCATION_7" [] k = 42 -> "DEVICE_LOCATION_42"

DefaultValueType(k) ==
  [id |-> k, type_name |-> Some(ExpectedTypeName(k)), type_unit |-> Some(ExpectedTypeUnit(k))]

\* caller c takes the step that ends pc p of operation op
StepOf(c, op, p) == sess[c].op = op /\ sess[c].pc = p /\ sess'[c] /= sess[c]

\* the rows of a table, and a table that gained exactly the row
Rows(tbl) == {tbl[i] : i \in DOMAIN tbl}
Added(before, after, row) ==
  Len(after) = Len(before) + 1 /\ Rows(after) = Rows(before) \cup {row}

TypeExists(k) == \E i \in DOMAIN value_type : value_type[i].id = k
DeviceExists(k) == \E i \in DOMAIN device_type : device_type[i].id = k

\* C1: insertValue(t, k, v) on a type id k with no ValueType row creates the
\* row (k, "TYPE_<k>", "UNIT_<k>") and nothing else, and its next step adds
\* exactly one Value row (t, v, k) and leaves the ValueType rows alone.
C1_InsertValueCreatesType ==
  [][\A c \in Callers :
       /\ (StepOf(c, "add_value", "type_commit") /\ ~TypeExists(sess[c].args[2]))
            => /\ Added(value_type, value_type', DefaultValueType(sess[c].args[2]))
               /\ value' = value
               /\ sess'[c].pc = "value_commit"
               /\ sess'[c].args = sess[c].args
       /\ StepOf(c, "add_value", "value_commit")
            => /\ Len(value') = Len(value) + 1
               /\ SubSeq(value', 1, Len(value)) = value
               /\ value'[Len(value')].time = sess[c].args[1]
               /\ value'[Len(value')].value = sess[c].args[3]
               /\ value'[Len(value')].value_type_id = sess[c].args[2]
               /\ value_type' = value_type
               /\ last'.outcome = "ok"]_vars

\* an insertValue on the unknown id 42 has completed: the type row holds the
\* defaults and the one Value row references it
C1_Witness ==
  /\ last.op = "add_value" /\ last.outcome = "ok" /\ last.args = <<2, 42, 97>>
  /\ value_type = <<DefaultValueType(42)>>
  /\ Len(value) = 1 /\ value[1].time = 2 /\ value[1].value = 97
  /\ value[1].value_type_id = 42
  /\ nops = 1

\* C2: every persisted Value references a persisted ValueType id.
C2_ValueReferencesType ==
  \A i \in DOMAIN value : TypeExists(value[i].value_type_id)

\* two Values of two different auto-created types are persisted
C2_Witness ==
  /\ Len(value) = 2
  /\ value[1].value_type_id /= value[2].value_type_id
  /\ TypeExists(value[1].value_type_id) /\ TypeExists(value[2].value_type_id)

\* C3: an upsert that leaves one field absent keeps that field's stored
\* non-empty value, in value_type (name, unit) and in device_type (name,
\* location); a field it supplies non-empty on the record it read is stored,
\* so name = X then unit = Y leaves one record with name X and unit Y.
C3_PartialUpdateKeepsOtherField ==
  [][\A c \in Callers :
       /\ StepOf(c, "add_or_update_value_type", "commit") =>
            LET a == sess[c].args
                old == SelectById(value_type, a[1])
                new == SelectById(value_type', a[1])
            IN /\ (a[2] = None /\ old /= <<>> /\ Truthy(old[1].type_name))
                    => (Len(new) = 1 /\ new[1].type_name = old[1].type_name)
               /\ (a[3] = None /\ old /= <<>> /\ Truthy(old[1].type_unit))
                    => (Len(new) = 1 /\ new[1].type_unit = old[1].type_unit)
               /\ (Truthy(a[2]) /\ old = <<sess[c].inst.loaded>>)
                    => new[1].type_name = a[2]
               /\ (Truthy(a[3]) /\ old = <<sess[c].inst.loaded>>)
                    => new[1].type_unit = a[3]
       /\ StepOf(c, "add_or_update_device", "commit") =>
            LET a == sess[c].args
                old == SelectById(device_type, a[1])
                new == SelectById(device_type', a[1])
            IN /\ (a[2] = None /\ old /= <<>> /\ Truthy(old[1].name))
                    => (Len(new) = 1 /\ new[1].name = old[1].name)
               /\ (a[3] = None /\ old /= <<>> /\ Truthy(old[1].location))
                    => (Len(new) = 1 /\ new[1].location = old[1].location)
               /\ (Truthy(a[2]) /\ old = <<sess[c].inst.loaded>>)
                    => new[1].name = a[2]
               /\ (Truthy(a[3]) /\ old = <<sess[c].inst.loaded>>)
                    => new[1].location = a[3]]_vars

\* upsertValueType(7, unit = "Y") has completed on a record whose name "X"
\* an earlier upsert stored: the one record has name X and unit Y
C3_Witness ==
  /\ last.op = "add_or_update_value_type" /\ last.outcome = "ok"
  /\ last.args = <<7, None, Some("Y")>>
  /\ value_type = <<[id |-> 7, type_name |-> Some("X"), type_unit |-> Some("Y")]>>
  /\ nops = 2

\* C4: upsertValueType(id) with no name and no unit creates the record
\* (id, "TYPE_<id>", "UNIT_<id>") when there is none, and called on that
\* record it succeeds and leaves the whole store as it is; there is exactly
\* one record of id afterwards.
C4_IdempotentDefaulting ==
  [][\A c \in Callers :
       (StepOf(c, "add_or_update_value_type", "commit")
          /\ sess[c].args[2] = None /\ sess[c].args[3] = None) =>
         LET k == sess[c].args[1]
         IN /\ ~TypeExists(k)
                 => (Added(value_type, value_type', DefaultValueType(k))
                     /\ last'.outcome = "ok")
            /\ (SelectById(value_type, k) = <<DefaultValueType(k)>> /\ ~sess[c].inst.new)
                 => (value_type' = value_type /\ device_type' = device_type
                     /\ value' = value /\ last'.outcome = "ok"
                     /\ last'.result[1].identity_key = k)
            /\ SelectById(value_type, k) = <<DefaultValueType(k)>>
                 => value_type' = value_type
            /\ Len(SelectById(value_type', k)) = 1]_vars

\* the second of two upsertValueType(42) calls has completed on the record
\* the first one created
C4_Witness ==
  /\ last.op = "add_or_update_value_type" /\ last.outcome = "ok"
  /\ last.args = <<42, None, None>>
  /\ last.result[1].identity_key = 42
  /\ value_type = <<DefaultValueType(42)>>
  /\ value = <<>> /\ device_type = <<>>
  /\ nops = 2
  /\ \A c \in Callers : sess[c].pc = "idle"

\* C5: every persisted ValueType has a non-empty name and unit and every
\* persisted DeviceType a non-empty name and location.
C5_FieldsNeverEmpty ==
  /\ \A i \in DOMAIN value_type :
       Truthy(value_type[i].type_name) /\ Truthy(value_type[i].type_unit)
  /\ \A i \in DOMAIN device_type :
       Truthy(device_type[i].name) /\ Truthy(device_type[i].location)

\* an upsert called with empty strings has created a DeviceType, which holds
\* the defaults
C5_Witness ==
  /\ last.op = "add_or_update_device" /\ last.outcome = "ok"
  /\ last.args = <<7, Some(""), Some("")>>
  /\ device_type = <<[id |-> 7, name |-> Some(ExpectedDeviceName(7)),
                      location |-> Some(ExpectedDeviceLocation(7))]>>

\* a Value satisfies the filters of listValues that are supplied
Matches(r, k, s, e) ==
  /\ (k /= None => r.value_type_id = k[1])
  /\ (s /= None => r.time >= s[1])
  /\ (e /= None => r.time <= e[1])

\* C6: listValues returns each persisted Value that satisfies all supplied
\* filters (bounds inclusive) exactly once and nothing else; no filter: every
\* Value; no match: the empty sequence, not an error.
C6_ListValuesExactlyMatching ==
  last.op = "get_values" =>
    /\ last.outcome = "ok"
    /\ \A i \in DOMAIN value :
         Cardinality({j \in DOMAIN last.result : last.result[j] = value[i]})
           = IF Matches(value[i], last.args[1], last.args[2], last.args[3]) THEN 1 ELSE 0
    /\ \A j \in DOMAIN last.result : \E i \in DOMAIN value : last.result[j] = value[i]

\* listValues(7, start = 1, end = 1) returned the one Value of type 7 at time 1
\* and not the Value of type 7 at time 2
C6_Witness ==
  /\ last.op = "get_values"
  /\ last.args = <<Some(7), Some(1), Some(1)>>
  /\ Len(value) = 2 /\ Len(last.result) = 1
  /\ last.result[1].time = 1 /\ last.result[1].value_type_id = 7
  /\ \E i \in DOMAIN value : value[i].time = 2 /\ value[i].value_type_id = 7

\* C7: the sequence listValues returns is in non-decreasing order of time.
C7_ListValuesOrdered ==
  last.op = "get_values" =>
    \A i, j \in DOMAIN last.result :
      i < j => last.result[i].time <= last.result[j].time

\* Values inserted at times 2 then 0 are returned at times 0 then 2
C7_Witness ==
  /\ last.op = "get_values"
  /\ Len(value) = 2 /\ value[1].time = 2 /\ value[2].time = 0
  /\ last.result = <<value[2], value[1]>>

\* C8: getValueType(id) and getDeviceType(id) signal NoResultFound when no
\* record of id has been created, and return the record once it exists.
C8_LookupNotFound ==
  /\ last.op = "get_value_type" =>
       IF TypeExists(last.args[1])
       THEN /\ last.outcome = "ok"
            /\ Len(last.result) = 1 /\ last.result[1].id = last.args[1]
            /\ \E i \in DOMAIN value_type : value_type[i] = last.result[1]
       ELSE last.outcome = "NoResultFound"
  /\ last.op = "get_device_type" =>
       IF DeviceExists(last.args[1])
       THEN /\ last.outcome = "ok"
            /\ Len(last.result) = 1 /\ last.result[1].id = last.args[1]
            /\ \E i \in DOMAIN device_type : device_type[i] = last.result[1]
       ELSE last.outcome = "NoResultFound"

\* getValueType(42) signalled NoResultFound while ValueType 7 exists
C8_Witness ==
  /\ last.op = "get_value_type" /\ last.args = <<42>>
  /\ last.outcome = "NoResultFound"
  /\ TypeExists(7) /\ ~TypeExists(42)

\* C9 as stated: two concurrent upsertDeviceType calls for an id with no
\* record: one persists the creation and the other observes the created row,
\* so every completed upsertDeviceType returns its record and the store
\* holds one row of the id.
C9_EveryDeviceUpsertSeesRow ==
  /\ \A k \in DeviceIds : Len(SelectById(device_type, k)) <= 1
  /\ (last.op = "add_or_update_device" /\ last.outcome /= "select")
       => (last.outcome = "ok" /\ Len(SelectById(device_type, last.args[1])) = 1)

\* C9 amended: the store never holds more than one DeviceType row of an id.
\* A caller whose SELECT runs after the creation was committed observes the
\* created row and its commit updates that row; of two callers that both
\* read 'absent', the first to commit persists the creation and the second
\* fails with IntegrityError and persists nothing.
C9_DeviceCreateRace ==
  [][\A c \in Callers :
       /\ \A k \in DeviceIds : Len(SelectById(device_type', k)) <= 1
       /\ (sess[c].pc = "idle" /\ sess'[c].op = "add_or_update_device") =>
            LET k == sess'[c].args[1]
            IN IF DeviceExists(k)
               THEN /\ ~sess'[c].inst.new
                    /\ <<sess'[c].inst.loaded>> = SelectById(device_type, k)
               ELSE sess'[c].inst.new
       /\ StepOf(c, "add_or_update_device", "commit") =>
            LET k == sess[c].args[1]
            IN /\ (sess[c].inst.new /\ ~DeviceExists(k))
                    => /\ Added(device_type, device_type', sess[c].inst.obj)
                       /\ last'.outcome = "ok"
               /\ (sess[c].inst.new /\ DeviceExists(k))
                    => /\ device_type' = device_type
                       /\ last'.outcome = "IntegrityError"
                       /\ last'.result = <<>>
               /\ ~sess[c].inst.new
                    => /\ Len(device_type') = Len(device_type)
                       /\ last'.outcome = "ok"
                       /\ last'.result[1].identity_key = k
               /\ sess'[c].pc = "idle"]_vars

\* both callers read 'absent' for device 7; the one with name "X" committed
\* first, the one with name "Y" got IntegrityError and the row holds "X"
C9_Witness ==
  /\ last.op = "add_or_update_device" /\ last.outcome = "IntegrityError"
  /\ last.args[1] = 7 /\ last.args[2] = Some("Y")
  /\ Len(device_type) = 1 /\ device_type[1].id = 7 /\ device_type[1].name = Some("X")

\* the ValueType record an upsert creates from its arguments
CreatedValueType(a) ==
  [id |-> a[1],
   type_name |-> IF a[2] /= None /\ a[2] /= Some("") THEN a[2]
                 ELSE Some(ExpectedTypeName(a[1])),
   type_unit |-> IF a[3] /= None /\ a[3] /= Some("") THEN a[3]
                 ELSE Some(ExpectedTypeUnit(a[1]))]

\* C10: of two upserts that both read 'absent' for a ValueType id, the first
\* to commit stores the record of its own arguments; the second to commit
\* gets IntegrityError, is not retried, and leaves the store as the first
\* one wrote it.
C10_ValueTypeCreateRace ==
  [][\A c \in Callers :
       (StepOf(c, "add_or_update_value_type", "commit") /\ sess[c].inst.new) =>
         LET k == sess[c].args[1]
         IN /\ ~TypeExists(k)
                 => /\ Added(value_type, value_type', CreatedValueType(sess[c].args))
                    /\ last'.outcome = "ok"
            /\ TypeExists(k)
                 => /\ last'.outcome = "IntegrityError"
                    /\ last'.caller = c
                    /\ last'.result = <<>>
                    /\ value_type' = value_type
                    /\ device_type' = device_type /\ value' = value
                    /\ sess'[c].pc = "idle"
                    /\ nops' = nops]_vars

\* both upserts read 'absent' for ValueType 7; the one with ("X", "X")
\* committed first, the one with ("Y", "Y") got IntegrityError and the
\* record holds ("X", "X")
C10_Witness ==
  /\ last.op = "add_or_update_value_type" /\ last.outcome = "IntegrityError"
  /\ last.args = <<7, Some("Y"), Some("Y")>>
  /\ value_type = <<[id |-> 7, type_name |-> Some("X"), type_unit |-> Some("X")]>>

\* C11: an insertValue that auto-creates its ValueType writes the ValueType
\* and the Value as one atomic unit: whenever the ValueType row it created
\* is persisted, so is its Value row.
C11_InsertValueAtomic ==
  \A c \in Callers :
    (sess[c].op = "add_value" /\ sess[c].inst.new /\ sess[c].pc = "value_commit")
      => \E j \in DOMAIN value :
           /\ value[j].time = sess[c].args[1]
           /\ value[j].value_type_id = sess[c].args[2]
           /\ value[j].value = sess[c].args[3]

\* C12: an insertValue that signals IntegrityError has applied no write: the
\* raising step and every earlier step of the call leave the Values as they
\* are, the call ends there without a retry, and the loser of a race to
\* auto-create a type id is such a call.
C12_ConflictAppliesNothing ==
  [][\A c \in Callers :
       /\ ((sess[c].op = "add_value" \/ sess'[c].op = "add_value")
             /\ sess'[c] /= sess[c] /\ last'.outcome /= "ok")
            => value' = value
       /\ (StepOf(c, "add_value", "type_commit") /\ last'.outcome = "IntegrityError")
            => /\ value' = value /\ value_type' = value_type
               /\ device_type' = device_type
               /\ sess'[c].pc = "idle"
               /\ nops' = nops
       /\ (StepOf(c, "add_value", "type_commit") /\ sess[c].inst.new
             /\ TypeExists(sess[c].args[2]))
            => last'.outcome = "IntegrityError"]_vars

\* two insertValue calls raced to create type 42: one committed the type and
\* is about to commit its Value, the other got IntegrityError and no Value is
\* persisted
C12_Witness ==
  /\ last.op = "add_value" /\ last.outcome = "IntegrityError" /\ last.args[2] = 42
  /\ value = <<>>
  /\ \E c \in Callers :
       /\ sess[c].op = "add_value" /\ sess[c].pc = "value_commit"
       /\ sess[c].args[2] = 42
       /\ sess[last.caller].pc = "idle" /\ c /= last.caller

\* C13: Values are not deduplicated: every insertValue that commits its Value
\* succeeds and adds exactly one row, also when a row of the same time,
\* value and type is stored, and an insertValue on a type it found stored
\* always gets that far.
C13_NoDeduplication ==
  [][\A c \in Callers :
       /\ StepOf(c, "add_value", "value_commit")
            => /\ Len(value') = Len(value) + 1
               /\ last'.outcome = "ok" /\ last'.caller = c
               /\ value'[Len(value')].time = sess[c].args[1]
               /\ value'[Len(value')].value = sess[c].args[3]
               /\ value'[Len(value')].value_type_id = sess[c].args[2]
       /\ (StepOf(c, "add_value", "type_commit") /\ ~sess[c].inst.new)
            => sess'[c].pc = "value_commit"]_vars

\* two insertValue(1, 7, 97) calls have both completed and both rows are
\* stored
C13_Witness ==
  /\ last.op = "add_value" /\ last.outcome = "ok" /\ last.args = <<1, 7, 97>>
  /\ Len(value) = 2
  /\ \A j \in DOMAIN value :
       value[j].time = 1 /\ value[j].value = 97 /\ value[j].value_type_id = 7
  /\ value[1].id /= value[2].id

\* C14: an empty string is treated like an absent argument by both upserts:
\* supplied for a field whose stored value is non-empty it leaves the value
\* unchanged, and on a new record it stores the synthesized default.
C14_EmptyStringIsAbsent ==
  [][\A c \in Callers :
       /\ StepOf(c, "add_or_update_value_type", "commit") =>
            LET a == sess[c].args
                old == SelectById(value_type, a[1])
                new == SelectById(value_type', a[1])
            IN /\ (a[2] = Some("") /\ old /= <<>> /\ Truthy(old[1].type_name))
                    => (Len(new) = 1 /\ new[1].type_name = old[1].type_name)
               /\ (a[3] = Some("") /\ old /= <<>> /\ Truthy(old[1].type_unit))
                    => (Len(new) = 1 /\ new[1].type_unit = old[1].type_unit)
               /\ (a[2] = Some("") /\ old = <<>>)
                    => (Len(new) = 1 /\ new[1].type_name = Some(ExpectedTypeName(a[1])))
               /\ (a[3] = Some("") /\ old = <<>>)
                    => (Len(new) = 1 /\ new[1].type_unit = Some(ExpectedTypeUnit(a[1])))
       /\ StepOf(c, "add_or_update_device", "commit") =>
            LET a == sess[c].args
                old == SelectById(device_type, a[1])
                new == SelectById(device_type', a[1])
            IN /\ (a[2] = Some("") /\ old /= <<>> /\ Truthy(old[1].name))
                    => (Len(new) = 1 /\ new[1].name = old[1].name)
               /\ (a[3] = Some("") /\ old /= <<>> /\ Truthy(old[1].location))
                    => (Len(new) = 1 /\ new[1].location = old[1].location)
               /\ (a[2] = Some("") /\ old = <<>>)
                    => (Len(new) = 1 /\ new[1].name = Some(ExpectedDeviceName(a[1])))
               /\ (a[3] = Some("") /\ old = <<>>)
                    => (Len(new) = 1
                        /\ new[1].location = Some(ExpectedDeviceLocation(a[1])))
       /\ (sess[c].pc = "idle" /\ sess'[c].pc = "commit") =>
            LET a == sess'[c].args
                Absent(x) == IF x = Some("") THEN None ELSE x
            IN sess'[c].inst =
                 IF sess'[c].op = "add_or_update_value_type"
                 THEN value_type_select(value_type, a[1], Absent(a[2]), Absent(a[3]))
                 ELSE device_select(device_type, a[1], Absent(a[2]), Absent(a[3]))]_vars

\* upsertValueType(7, name = "", unit = "Y") has completed on the record
\* named "X": the name is still "X"
C14_Witness ==
  /\ last.op = "add_or_update_value_type" /\ last.outcome = "ok"
  /\ last.args = <<7, Some(""), Some("Y")>>
  /\ value_type = <<[id |-> 7, type_name |-> Some("X"), type_unit |-> Some("Y")]>>
  /\ nops = 2

\* C15: Values are append-only and immutable: every step keeps each persisted
\* Value, with its time, value and type reference, where it is.
C15_ValuesImmutable ==
  [][/\ Len(value') >= Len(value)
     /\ SubSeq(value', 1, Len(value)) = value]_vars

\* the Value (1, 4) of type 7 was persisted and an insertValue at the same
\* time and type with the value 97 followed: both rows are stored
C15_Witness ==
  /\ Len(value) = 2
  /\ value[1].time = 1 /\ value[1].value_type_id = 7 /\ value[1].value = 4
  /\ value[2].time = 1 /\ value[2].value_type_id = 7 /\ value[2].value = 97


(***************************************************************************)
(* C16.  The object a successful upsertValueType or upsertDeviceType        *)
(* returns reflects the persisted state: its id, name and unit (location)   *)
(* can be read and are those of the record a getValueType (getDeviceType)   *)
(* of the same id returns right after the upsert.                           *)
(***************************************************************************)
C16_ReturnedObjectReflectsStore ==
  /\ (last.op = "add_or_update_value_type" /\ last.outcome = "ok")
       => LET got == read_attributes(last.result[1])
          IN /\ got.outcome = "ok"
             /\ <<got.attrs>> = SelectById(value_type, last.args[1])
  /\ (last.op = "add_or_update_device" /\ last.outcome = "ok")
       => LET got == read_attributes(last.result[1])
          IN /\ got.outcome = "ok"
             /\ <<got.attrs>> = SelectById(device_type, last.args[1])

\* C17: under every interleaving of upserts and insertValue calls, races to
\* create the same id included, the store never holds two ValueType rows of
\* one id, and getValueType never signals MultipleResultsFound.
C17_ValueTypeIdUnique ==
  /\ \A k \in TypeIds : Len(SelectById(value_type, k)) <= 1
  /\ ~(last.op = "get_value_type" /\ last.outcome = "MultipleResultsFound")

\* an upsert of id 42 and an insertValue naming 42 both read "absent"; the
\* insertValue created the row first and the upsert's INSERT was refused
C17_Witness ==
  /\ last.op = "add_or_update_value_type" /\ last.outcome = "IntegrityError"
  /\ last.args[1] = 42
  /\ Len(SelectById(value_type, 42)) = 1
  /\ \E c \in Callers :
       /\ sess[c].op = "add_value" /\ sess[c].pc = "value_commit"
       /\ sess[c].args[2] = 42 /\ sess[c].inst.new

\* C18: a step of an insertValue naming a ValueType id that is stored leaves
\* the ValueType rows as they are (no reset to the defaults, no further
\* row); the row of a stored id changes only in the commit of an upsert of
\* that id that supplies a non-empty name or unit.
C18_InsertValueKeepsType ==
  [][/\ \A c \in Callers :
          (sess[c].op = "add_value" /\ sess'[c] /= sess[c]
             /\ TypeExists(sess[c].args[2]))
            => value_type' = value_type
     /\ \A k \in TypeIds :
          (TypeExists(k) /\ SelectById(value_type', k) /= SelectById(value_type, k))
            => \E c \in Callers :
                 /\ StepOf(c, "add_or_update_value_type", "commit")
                 /\ sess[c].args[1] = k
                 /\ \/ sess[c].args[2] \notin {None, Some("")}
                    \/ sess[c].args[3] \notin {None, Some("")}]_vars

\* ValueType 7 was given the name X and the unit Y, and an insertValue
\* naming 7 has completed: the row still reads (7, X, Y)
C18_Witness ==
  /\ last.op = "add_value" /\ last.outcome = "ok" /\ last.args[2] = 7
  /\ value_type = <<[id |-> 7, type_name |-> Some("X"), type_unit |-> Some("Y")]>>
  /\ Len(value) = 1 /\ value[1].value_type_id = 7

\* C19: a read (the list of all value types, getValueType, getDeviceType,
\* listValues) leaves the ValueType, DeviceType and Value rows and every call
\* in progress as they are, whether it returns or signals NoResultFound; after
\* a lookup that found no row there is still no row of that id.
C19_ReadsChangeNothing ==
  [][(nreads' /= nreads)
       => /\ last'.op \in {"get_value_types", "get_value_type",
                           "get_device_type", "get_values"}
          /\ value_type' = value_type
          /\ device_type' = device_type
          /\ value' = value
          /\ sess' = sess
          /\ (last'.op = "get_value_type" /\ last'.outcome = "NoResultFound")
               => SelectById(value_type', last'.args[1]) = <<>>
          /\ (last'.op = "get_device_type" /\ last'.outcome = "NoResultFound")
               => SelectById(device_type', last'.args[1]) = <<>>]_vars

\* getDeviceType of the unknown id 7 signalled NoResultFound on a store that
\* holds a ValueType and a Value: no DeviceType row appeared
C19_Witness ==
  /\ last.op = "get_device_type" /\ last.outcome = "NoResultFound"
  /\ last.args = <<7>>
  /\ device_type = <<>>
  /\ value_type /= <<>> /\ value /= <<>>

====
